---- MODULE Spec2Model ----
(***************************************************************************)
(* Request pipeline of APIServer (src/src/api-server.ts): the route that   *)
(* createEndpoint registers (route-schema validation by the framework,     *)
(* the authenticateToken preHandler, the validatedHandler wrapper with its *)
(* request validation, handler call, response guard and error mapping).    *)
(*                                                                         *)
(* Strings that the code takes apart or builds are sequences of atoms:     *)
(* an Authorization header is a sequence whose atom " " is the separator   *)
(* of split(' '); a field name such as body.name is <<"body",".","name">>. *)
(* JavaScript values are pairs <<type, text>>.                             *)
(***************************************************************************)
EXTENDS Integers, Sequences, FiniteSets, TLC

VARIABLES apiToken, active, req, served, routes, server, calls

vars == <<apiToken, active, req, served, routes, server, calls>>

\* What the request pipeline leaves alone: the registered operation ids and the
\* lifecycle of the server.
staticVars == <<routes, server, calls>>

\* ------------------------------------------------------------------ bounds

\* Number of requests served one after another on a connection slot.
MaxRequests == 2

\* Request slots of the host framework; the requests in different slots are
\* handled concurrently.  Spec serves its requests one after another in slot 1.
NumSlots == 2

Slots == 1..NumSlots

\* ------------------------------------------------------- values and objects

Str(t) == <<"string", t>>
Num(t) == <<"number", t>>

\* The empty object {}.
EmptyObj == [k \in {} |-> Str("")]

\* A request part or a handler result: undefined, or an object.
Undefined == [def |-> FALSE, obj |-> EmptyObj]
Obj(o) == [def |-> TRUE, obj |-> o]

\* JavaScript Number(text) on the strings the requests carry ("nan" is NaN).
ToNumber(t) ==
    CASE t = "5" -> "5"
      [] t = "10" -> "10"
      [] t = "" -> "0"
      [] OTHER -> "nan"

\* s.length on the strings the requests carry.
StrLength(t) ==
    CASE t = "" -> "0"
      [] OTHER -> "1"

\* ------------------------------------------------------------- Zod schemas

\* Field schemas:
\*   "str1"   z.string().min(1)
\*   "numDef" z.coerce.number().default(10)
\*   "len"    z.string().transform((s) => s.length)
FieldTypes == {"str1", "numDef", "len"}

Issue(path, message) == [path |-> path, message |-> message]

\* Parse of one field: [ok, has, value, message].
FieldOk(v) == [ok |-> TRUE, has |-> TRUE, value |-> v, message |-> <<>>]
FieldBad(m) == [ok |-> FALSE, has |-> FALSE, value |-> Str(""), message |-> m]

ParseString(has, v) ==
    IF ~has THEN FieldBad(<<"Required">>)
    ELSE IF v[1] # "string" THEN FieldBad(<<"Expected string, received ", v[1]>>)
    ELSE FieldOk(v)

ParseField(type, has, v) ==
    CASE type = "str1" ->
           LET s == ParseString(has, v) IN
           IF ~s.ok THEN s
           ELSE IF v[2] = "" THEN FieldBad(<<"String must contain at least 1 character(s)">>)
           ELSE s
      [] type = "numDef" ->
           IF ~has THEN FieldOk(Num("10"))
           ELSE LET n == IF v[1] = "number" THEN v[2] ELSE ToNumber(v[2]) IN
                IF n = "nan" THEN FieldBad(<<"Expected number, received nan">>)
                ELSE FieldOk(Num(n))
      [] type = "len" ->
           LET s == ParseString(has, v) IN
           IF ~s.ok THEN s ELSE FieldOk(Num(StrLength(v[2])))

\* A schema declared for a part: absent, a ZodObject (kind "object"), or a
\* schema that is not a ZodObject, here an object schema wrapped by .refine()
\* (kind "effects").  order lists the shape's keys, types their schemas;
\* strict is the unknownKeys policy of the (inner) object.
NoSchema == [declared |-> FALSE, kind |-> "none", order |-> <<>>,
             types |-> [k \in {} |-> "str1"], strict |-> FALSE]

ZObject(order, types) ==
    [declared |-> TRUE, kind |-> "object", order |-> order, types |-> types, strict |-> FALSE]

ZEffects(order, types) ==
    [declared |-> TRUE, kind |-> "effects", order |-> order, types |-> types, strict |-> FALSE]

applyStrictLax(schema) == schema

applyStrict(schema) ==
    IF schema.kind = "object" THEN [schema EXCEPT !.strict = TRUE] ELSE schema

Range(s) == {s[i] : i \in DOMAIN s}

\* The issues of the shape's keys, in shape order.
RECURSIVE FieldIssues(_, _, _)
FieldIssues(schema, o, i) ==
    IF i > Len(schema.order) THEN <<>>
    ELSE LET k == schema.order[i]
             has == k \in DOMAIN o
             r == ParseField(schema.types[k], has, IF has THEN o[k] ELSE Str(""))
         IN (IF r.ok THEN <<>> ELSE <<Issue(<<k>>, r.message)>>)
            \o FieldIssues(schema, o, i + 1)

\* The unknown keys of an object, as the one unrecognized_keys issue of a
\* strict object (its path is the object's own path, its message names the keys).
RECURSIVE KeyNames(_)
KeyNames(S) ==
    IF S = {} THEN <<>>
    ELSE LET k == CHOOSE x \in S : TRUE IN <<k>> \o KeyNames(S \ {k})

UnknownKeys(schema, o) == DOMAIN o \ Range(schema.order)

UnknownIssues(schema, o) ==
    IF schema.strict /\ UnknownKeys(schema, o) # {}
    THEN <<Issue(<<>>, <<"Unrecognized key(s) in object: ">> \o KeyNames(UnknownKeys(schema, o)))>>
    ELSE <<>>

ParsedObj(schema, o) ==
    LET keys == {k \in Range(schema.order) :
                    ParseField(schema.types[k], k \in DOMAIN o,
                               IF k \in DOMAIN o THEN o[k] ELSE Str("")).has}
    IN [k \in keys |-> ParseField(schema.types[k], k \in DOMAIN o,
                                  IF k \in DOMAIN o THEN o[k] ELSE Str("")).value]

\* schema.safeParse(part): [success, data, issues].
safeParse(schema, part) ==
    IF ~part.def
    THEN [success |-> FALSE, data |-> Undefined, issues |-> <<Issue(<<>>, <<"Required">>)>>]
    ELSE LET issues == FieldIssues(schema, part.obj, 1) \o UnknownIssues(schema, part.obj) IN
         IF issues # <<>>
         THEN [success |-> FALSE, data |-> Undefined, issues |-> issues]
         ELSE [success |-> TRUE, data |-> Obj(ParsedObj(schema, part.obj)), issues |-> <<>>]

\* err.path.join('.')
RECURSIVE JoinDot(_)
JoinDot(path) ==
    IF path = <<>> THEN <<>>
    ELSE IF Len(path) = 1 THEN <<path[1]>>
    ELSE <<path[1], ".">> \o JoinDot(Tail(path))

\* errors.map((err) => ({ field: `${origin}.${err.path.join('.')}`, message }))
FieldErrors(origin, issues) ==
    [i \in DOMAIN issues |->
        [field |-> <<origin, ".">> \o JoinDot(issues[i].path), message |-> issues[i].message]]

\* errors.map((err) => ({ field: err.path.join('.') || 'root', message }))
ResponseFieldErrors(issues) ==
    [i \in DOMAIN issues |->
        [field |-> IF JoinDot(issues[i].path) = <<>> THEN <<"root">> ELSE JoinDot(issues[i].path),
         message |-> issues[i].message]]

\* --------------------------------------------------- registered endpoints

ItemShape == [name |-> "str1", limit |-> "numDef"]

\* response: z.object({ message: z.string().min(1) })
MessageResponse == ZObject(<<"message">>, [message |-> "str1"])

\* The routes registered at startup by createEndpoint (immutable afterwards).
Endpoints ==
    <<  \* GET /items?name=..&limit=..   public
        [method |-> "GET", handler |-> "getItems",
         url |-> "/items", authenticated |-> FALSE,
         query |-> ZObject(<<"name", "limit">>, ItemShape),
         body |-> NoSchema, params |-> NoSchema, response |-> MessageResponse],
        \* POST /items   authenticated, object body
        [method |-> "POST", handler |-> "postItems",
         url |-> "/items", authenticated |-> TRUE,
         query |-> NoSchema,
         body |-> ZObject(<<"name", "limit">>, ItemShape),
         params |-> NoSchema, response |-> MessageResponse],
        \* POST /items/:id   authenticated, params and a refined (non-ZodObject) body
        [method |-> "POST", handler |-> "postItem",
         url |-> "/items/:id", authenticated |-> TRUE,
         query |-> NoSchema,
         body |-> ZEffects(<<"name">>, [name |-> "str1"]),
         params |-> ZObject(<<"id">>, [id |-> "str1"]),
         response |-> ZEffects(<<"message">>, [message |-> "str1"])],
        \* GET /search?name=..   public, a transforming query
        [method |-> "GET", handler |-> "search",
         url |-> "/search", authenticated |-> FALSE,
         query |-> ZObject(<<"name">>, [name |-> "len"]),
         body |-> NoSchema, params |-> NoSchema, response |-> MessageResponse],
        \* GET /report?name=..   public, an object query and a body schema on GET
        [method |-> "GET", handler |-> "report",
         url |-> "/report", authenticated |-> FALSE,
         query |-> ZObject(<<"name">>, [name |-> "str1"]),
         body |-> ZObject(<<"name">>, [name |-> "str1"]),
         params |-> NoSchema, response |-> MessageResponse],
        \* GET /export?name=..   public, a transforming query and a body schema on GET
        [method |-> "GET", handler |-> "export",
         url |-> "/export", authenticated |-> FALSE,
         query |-> ZObject(<<"name">>, [name |-> "len"]),
         body |-> ZObject(<<"name">>, [name |-> "str1"]),
         params |-> NoSchema, response |-> MessageResponse],
        \* GET /lookup?name=..   authenticated, a transforming query
        [method |-> "GET", handler |-> "lookup",
         url |-> "/lookup", authenticated |-> TRUE,
         query |-> ZObject(<<"name">>, [name |-> "len"]),
         body |-> NoSchema, params |-> NoSchema, response |-> MessageResponse]  >>

EndpointIds == DOMAIN Endpoints

\* ------------------------------------------------------------ request inputs

ItemVals(k) ==
    CASE k = "name" -> {Str(""), Str("a")}
      [] k = "limit" -> {Str("5"), Str("x")}
      [] k = "extra" -> {Str("x")}

\* Objects over the keys name, limit and the undeclared key extra.
ItemObjs ==
    {o \in UNION {[S -> UNION {ItemVals(k) : k \in S}] : S \in SUBSET {"name", "limit", "extra"}} :
        \A k \in DOMAIN o : o[k] \in ItemVals(k)}

\* request.query as the framework hands it over: always an object of strings.
RawQueries(e) ==
    IF Endpoints[e].query.declared THEN {Obj(o) : o \in ItemObjs}
    ELSE {Obj(EmptyObj), Obj([extra |-> Str("x")])}

\* request.body: undefined on GET (the payload of a GET is never parsed) and
\* when no payload was sent; otherwise the parsed JSON object.
RawBodies(e) ==
    IF Endpoints[e].method = "GET" THEN {Undefined}
    ELSE {Undefined} \cup {Obj(o) : o \in ItemObjs} \cup {Obj([name |-> Num("5")])}

\* request.params: the path parameters of the matched route.
RawParams(e) ==
    IF Endpoints[e].url = "/items/:id"
    THEN {Obj([id |-> Str("")]), Obj([id |-> Str("a")])}
    ELSE {Obj(EmptyObj)}

\* request.headers.authorization: undefined or a string (a sequence of atoms,
\* " " being the space character).
NoHeader == [present |-> FALSE, value |-> <<>>]
Header(v) == [present |-> TRUE, value |-> v]

Headers ==
    {NoHeader, Header(<<>>), Header(<<"InvalidFormat">>), Header(<<"Bearer">>),
     Header(<<"Bearer", " ">>), Header(<<"Bearer", " ", "secret">>),
     Header(<<"Bearer", " ", "other">>), Header(<<"bearer", " ", "secret">>),
     Header(<<"Bearer", " ", " ", "secret">>),
     Header(<<"Bearer", " ", "secret", " ", "extra">>),
     Header(<<"Basic", " ", "secret">>)}

\* authHeader.split(' '): the parts between the " " atoms, each a string.
RECURSIVE SplitFrom(_, _, _)
SplitFrom(v, i, cur) ==
    IF i > Len(v) THEN <<cur>>
    ELSE IF v[i] = " " THEN <<cur>> \o SplitFrom(v, i + 1, <<>>)
    ELSE SplitFrom(v, i + 1, Append(cur, v[i]))

Split(v) == SplitFrom(v, 1, <<>>)

\* The configured apiToken: a string, or a custom validator function.
ApiTokens ==
    {[kind |-> "string", value |-> <<"secret">>],
     [kind |-> "string", value |-> <<>>],
     [kind |-> "function", value |-> <<>>]}

\* Auth contexts a validator may return.
NoAuth == [def |-> FALSE, ctx |-> "none"]
Ctx(c) == [def |-> TRUE, ctx |-> c]
Contexts == {NoAuth, Ctx("user"), Ctx("admin")}

\* AuthValidationResult values: error is undefined, '' or a message.
NoError == [def |-> FALSE, text |-> <<>>]
ErrorText(t) == [def |-> TRUE, text |-> t]
ValidatorResults ==
    [valid : BOOLEAN, context : Contexts,
     error : {NoError, ErrorText(<<>>), ErrorText(<<"Custom error message">>)}]

\* Values a handler may return: conforming, missing field, ill-typed field,
\* undeclared field, nothing.
HandlerResults ==
    {Obj([message |-> Str("a")]), Obj(EmptyObj), Obj([message |-> Num("5")]),
     Obj([message |-> Str("a"), extra |-> Str("x")]), Undefined}

\* The FastifyReply object, as a value handed to the response guard.
ReplyObject == Obj([raw |-> Str("reply")])

\* Messages a handler may give a NotFoundError.
NotFoundMessages == {<<"User not found">>, <<"Item ", "a", " not found">>}

\* details lists a handler may put in a ValidationError.
HandlerDetails ==
    {<<>>, <<[field |-> <<"body", ".", "email">>, message |-> <<"Email already taken">>]>>}

\* ------------------------------------------------------------------ replies

NoDetails == [def |-> FALSE, list |-> <<>>]
Details(l) == [def |-> TRUE, list |-> l]

\* An error body { statusCode, code?, error, message, details? }.
ErrorBody(statusCode, code, error, message, details) ==
    [kind |-> "error", statusCode |-> statusCode, code |-> code, error |-> error,
     message |-> message, details |-> details, val |-> Undefined]

\* A handler result used as the payload.
ValueBody(v) ==
    [kind |-> "value", statusCode |-> 0, code |-> "", error |-> "",
     message |-> <<>>, details |-> NoDetails, val |-> v]

NoBody == ValueBody(Undefined)

FreshReply == [sent |-> FALSE, status |-> 200, payload |-> NoBody, wire |-> NoBody]

\* ErrorResponseSchema = z.object({ statusCode, code?, error, message }): parsing an
\* error body with this non-strict object drops every key it does not declare.
ErrorResponseSchemaOut(b) == [b EXCEPT !.details = NoDetails]

\* Status codes for which the route declares a response schema:
\* createStandardResponses adds 400 and 500 to 200 (and 401, 403 when authenticated).
HasErrorSchema(e, status) ==
    \/ status \in {400, 500}
    \/ Endpoints[e].authenticated /\ status \in {401, 403}

\* What the serializer compiled for the status writes: the payload as parsed by
\* the schema declared for that status, the payload itself when none is declared.
Serialize(e, status, b) ==
    IF b.kind = "error" /\ HasErrorSchema(e, status) THEN ErrorResponseSchemaOut(b)
    ELSE IF b.kind = "value" /\ status = 200 /\ safeParse(applyStrict(Endpoints[e].response), b.val).success
         THEN ValueBody(safeParse(applyStrict(Endpoints[e].response), b.val).data)
    ELSE b

\* reply.code(status).send(payload): the first send of a request is transmitted;
\* a send on a reply that was already sent transmits nothing.
Send(rq, status, b) ==
    IF rq.reply.sent
    THEN [rq EXCEPT !.sends = @ + 1]
    ELSE [rq EXCEPT !.sends = @ + 1,
                    !.reply = [sent |-> TRUE, status |-> status, payload |-> b,
                               wire |-> Serialize(rq.ep, status, b)]]

\* ------------------------------------------------------- server lifecycle

\* The APIServer after its constructor: started = false; ownsFastifyInstance is
\* false when the caller provided the Fastify instance.  fastify is the state of
\* that instance ("idle", "listening", "closed"), listens and closes count the
\* calls of fastify.listen and fastify.close made by the APIServer.  History
\* kept for the properties: stops counts the calls of stop(), startedOk tells
\* that a start() has completed successfully and stop() was not called since,
\* last is the latest event ("listenRejected" right after a listen that failed).
NewServer(owns) ==
    [ownsFastifyInstance |-> owns, started |-> FALSE, fastify |-> "idle",
     listens |-> 0, closes |-> 0, stops |-> 0, startedOk |-> FALSE, last |-> "none"]

\* --------------------------------------------------------------- the state

NotSeen == [called |-> FALSE, query |-> Undefined, body |-> Undefined,
            params |-> Undefined, auth |-> NoAuth]

\* No validator result yet.
NoResult == [returned |-> FALSE, valid |-> FALSE, context |-> NoAuth, error |-> NoError]

Returned(result) ==
    [returned |-> TRUE, valid |-> result.valid, context |-> result.context,
     error |-> result.error]

\* A request slot with no request in it.
Idle ==
    [pc |-> "idle", method |-> "", url |-> "", ep |-> 1, handler |-> "none",
     header |-> NoHeader,
     rawQuery |-> Undefined, rawBody |-> Undefined, rawParams |-> Undefined,
     query |-> Undefined, body |-> Undefined, params |-> Undefined,
     auth |-> NoAuth, vcalls |-> <<>>, vresult |-> NoResult, compared |-> FALSE,
     seen |-> NotSeen, hcalls |-> 0, result |-> Undefined,
     guard |-> "none", reply |-> FreshReply, sends |-> 0, thrown |-> "none",
     thrownMessage |-> <<>>, steps |-> <<>>]

\* The state after construction and registration, before the first request.
InitWith(slots) ==
    /\ apiToken \in ApiTokens
    /\ active = slots
    /\ req = [r \in Slots |-> Idle]
    /\ served = 0
    /\ routes = <<>>
    /\ server = NewServer(TRUE)
    /\ calls = <<>>

Init == InitWith({1})

Step(rq, name) == [rq EXCEPT !.steps = Append(@, name)]

\* The request is over: a reply was sent or an error went to the framework.
Finished(rq) == [rq EXCEPT !.pc = "done"]

\* Requests are handled concurrently when more than one slot takes requests.
Concurrent == Cardinality(active) > 1

\* The inputs of concurrently handled requests are drawn from a part of the
\* inputs of the requests handled one after another: requests to the
\* authenticated POST /items with a well-formed header and a valid body.
ArrivingEndpoints == IF Concurrent THEN {2} ELSE EndpointIds

ArrivingHeaders == IF Concurrent THEN {Header(<<"Bearer", " ", "secret">>)} ELSE Headers

ArrivingBodies(e) == IF Concurrent THEN {Obj([name |-> Str("a")])} ELSE RawBodies(e)

ResolvedResults ==
    IF Concurrent
    THEN {v \in ValidatorResults : v.error = NoError /\ (v.valid \/ ~v.context.def)}
    ELSE ValidatorResults

ReturnedResults == IF Concurrent THEN {Obj([message |-> Str("a")])} ELSE HandlerResults

ThrownDetails == IF Concurrent THEN {<<>>} ELSE HandlerDetails

ThrownMessages == IF Concurrent THEN {<<"User not found">>} ELSE NotFoundMessages

\* The requests that arrive: a method and a path that some route was registered
\* with (any other request is answered by the framework's own 404).
ArrivingRequests == {<<Endpoints[e].method, Endpoints[e].url>> : e \in ArrivingEndpoints}

RouteByPathOnly(method, url) ==
    CHOOSE e \in EndpointIds : Endpoints[e].url = url

\* The route the framework dispatches a request to: the one registered with the
\* request's method and path (one route per pair, a second registration of the
\* same pair is refused).
Route(method, url) ==
    CHOOSE e \in EndpointIds : Endpoints[e].method = method /\ Endpoints[e].url = url

\* A request arrives and is routed to its endpoint.
Arrive(r) ==
    /\ r \in active
    /\ req[r].pc = "idle"
    /\ served < MaxRequests
    /\ \E mu \in ArrivingRequests, h \in ArrivingHeaders :
         \E q \in RawQueries(Route(mu[1], mu[2])), b \in ArrivingBodies(Route(mu[1], mu[2])),
            p \in RawParams(Route(mu[1], mu[2])) :
            req' = [req EXCEPT ![r] =
                      [Idle EXCEPT !.pc = "validation", !.method = mu[1], !.url = mu[2],
                                   !.ep = Route(mu[1], mu[2]), !.header = h,
                                   !.rawQuery = q, !.rawBody = b, !.rawParams = p,
                                   !.query = q, !.body = b, !.params = p]]
    /\ UNCHANGED <<apiToken, active, served, staticVars>>

RouteSchemaWithBodyOnGet(e) ==
    [querystring |-> IF Endpoints[e].query.declared THEN applyStrict(Endpoints[e].query) ELSE NoSchema,
     params |-> IF Endpoints[e].params.declared THEN applyStrict(Endpoints[e].params) ELSE NoSchema,
     body |-> IF Endpoints[e].body.declared THEN applyStrict(Endpoints[e].body) ELSE NoSchema]

\* The schema object of the route: querystring and params when declared, body
\* only for methods other than GET.
RouteSchema(e) ==
    [querystring |-> IF Endpoints[e].query.declared THEN applyStrict(Endpoints[e].query) ELSE NoSchema,
     params |-> IF Endpoints[e].params.declared THEN applyStrict(Endpoints[e].params) ELSE NoSchema,
     body |-> IF Endpoints[e].method # "GET" /\ Endpoints[e].body.declared
              THEN applyStrict(Endpoints[e].body) ELSE NoSchema]

\* The text of a ZodError: the messages of its issues.
RECURSIVE IssuesText(_)
IssuesText(issues) ==
    IF issues = <<>> THEN <<>> ELSE issues[1].message \o IssuesText(Tail(issues))

\* The framework's answer to a failed route validation.
FstValidationBody(issues) ==
    ErrorBody(400, "FST_ERR_VALIDATION", "Bad Request", IssuesText(issues), NoDetails)

PreHandlerOnEveryRoute(e) == TRUE

\* ...(endpointConfig.authenticated ? { preHandler: this.authenticateToken } : {})
HasPreHandler(e) == Endpoints[e].authenticated

\* The framework validates the request against the route schema before the
\* preHandler hook and the handler: params, then body, then querystring, stopping
\* at the first that fails (400 FST_ERR_VALIDATION); each part that passes is
\* replaced by the value the validator returned.
RouteValidation(r) ==
    LET rq == Step(req[r], "routeValidation")
        sch == RouteSchema(rq.ep)
        pr == safeParse(sch.params, rq.params)
        br == safeParse(sch.body, rq.body)
        qr == safeParse(sch.querystring, rq.query)
        failed == \/ sch.params.declared /\ ~pr.success
                  \/ sch.body.declared /\ ~br.success
                  \/ sch.querystring.declared /\ ~qr.success
        issues == IF sch.params.declared /\ ~pr.success THEN pr.issues
                  ELSE IF sch.body.declared /\ ~br.success THEN br.issues
                  ELSE qr.issues
        next == IF HasPreHandler(rq.ep) THEN "preHandler" ELSE "wrapper"
    IN
    /\ req[r].pc = "validation"
    /\ req' = [req EXCEPT ![r] =
                 IF failed THEN Finished(Send(rq, 400, FstValidationBody(issues)))
                 ELSE [rq EXCEPT !.pc = next,
                                 !.params = IF sch.params.declared THEN pr.data ELSE @,
                                 !.body = IF sch.body.declared THEN br.data ELSE @,
                                 !.query = IF sch.querystring.declared THEN qr.data ELSE @]]
    /\ UNCHANGED <<apiToken, active, served, staticVars>>

AuthErrorAlways401(statusCode, error, message) ==
    ErrorBody(401, "", error, message, NoDetails)

\* { statusCode, error, message } as authenticateToken sends it.
AuthError(statusCode, error, message) ==
    ErrorBody(statusCode, "", error, message, NoDetails)

MissingHeaderMessage == <<"Missing authorization header">>
BadFormatMessage == <<"Invalid authorization header format. Expected: Bearer <token>">>
InvalidTokenMessage == <<"Invalid token">>

HeaderNeverMissing(h) == FALSE

\* !authHeader: undefined and the empty string are both falsy.
HeaderMissing(h) == ~h.present \/ h.value = <<>>

BadFormatLengthOnly(parts) == Len(parts) # 2

\* parts.length !== 2 || parts[0] !== 'Bearer'
BadFormat(parts) == Len(parts) # 2 \/ parts[1] # <<"Bearer">>

\* token !== this.config.apiToken
TokenRejectedByLength(token, configured) == Len(token) # Len(configured)

TokenRejected(token, configured) == token # configured

NotAwaited == "wrapper"

\* const result = await this.config.apiToken(token, request): the preHandler and
\* the framework that awaits it stay at this call until the validator settles.
AwaitValidator == "validator"

\* authenticateToken up to its first await or return.
authenticateToken(r) ==
    LET rq == Step(req[r], "auth")
        parts == Split(rq.header.value)
        token == parts[2]
    IN
    /\ req[r].pc = "preHandler"
    /\ req' = [req EXCEPT ![r] =
         IF HeaderMissing(rq.header)
         THEN Finished(Send(rq, 401, AuthError(401, "Unauthorized", MissingHeaderMessage)))
         ELSE IF BadFormat(parts)
         THEN Finished(Send(rq, 401, AuthError(401, "Unauthorized", BadFormatMessage)))
         ELSE IF apiToken.kind = "function"
         THEN [rq EXCEPT !.pc = AwaitValidator, !.vcalls = Append(@, token)]
         ELSE IF TokenRejected(token, apiToken.value)
         THEN Finished(Send([rq EXCEPT !.compared = TRUE], 403,
                            AuthError(403, "Forbidden", InvalidTokenMessage)))
         ELSE [rq EXCEPT !.compared = TRUE, !.pc = "wrapper"]]
    /\ UNCHANGED <<apiToken, active, served, staticVars>>

ErrorIgnored(error) == InvalidTokenMessage

\* result.error || 'Invalid token'
ErrorOrDefault(error) ==
    IF error.def /\ error.text # <<>> THEN error.text ELSE InvalidTokenMessage

AuthHolderShared(r) == 1

\* request.auth = result.context: the context is a property of the request
\* object that was passed to this call of authenticateToken.
AuthHolder(r) == r

\* The custom validator resolves and authenticateToken continues after its await.
ValidatorResolves(r) ==
    /\ req[r].pc = "validator"
    /\ \E result \in ResolvedResults :
         LET rq == [req[r] EXCEPT !.vresult = Returned(result)] IN
         req' = IF ~result.valid
                THEN [req EXCEPT ![r] =
                        Finished(Send(rq, 403,
                                      AuthError(403, "Forbidden", ErrorOrDefault(result.error))))]
                ELSE [[req EXCEPT ![r] = [rq EXCEPT !.pc = "wrapper"]]
                        EXCEPT ![AuthHolder(r)].auth =
                                   IF result.context.def THEN result.context ELSE @]
    /\ UNCHANGED <<apiToken, active, served, staticVars>>

\* The custom validator throws or rejects: authenticateToken rejects with that error.
ValidatorRejects(r) ==
    /\ req[r].pc = "validator"
    /\ req' = [req EXCEPT ![r] = Finished([req[r] EXCEPT !.thrown = "Error"])]
    /\ UNCHANGED <<apiToken, active, served, staticVars>>

CatchNotFoundFixedMessage(rq, message) ==
    Finished(Send(rq, 404, ErrorBody(404, "", "Not Found", <<"Not Found">>, NoDetails)))

\* The catch block of validatedHandler for the three error classes it maps.
CatchNotFound(rq, message) ==
    Finished(Send(rq, 404, ErrorBody(404, "", "Not Found", message, NoDetails)))

CatchValidationError(rq, details) ==
    Finished(Send(rq, 400,
                  ErrorBody(400, "", "Bad Request", <<"Validation failed">>, Details(details))))

ResponseInvalidMessage == <<"Response validation failed - server returned invalid data">>

CatchResponseValidationError(rq, details) ==
    Finished(Send(rq, 500,
                  ErrorBody(500, "", "Internal Server Error", ResponseInvalidMessage,
                            Details(details))))

\* The field errors of one part: none when the part has no schema or passes it.
PartErrors(origin, schema, part) ==
    IF schema.declared /\ ~safeParse(applyStrict(schema), part).success
    THEN FieldErrors(origin, safeParse(applyStrict(schema), part).issues)
    ELSE <<>>

PartData(schema, part) ==
    IF schema.declared THEN safeParse(applyStrict(schema), part).data ELSE Undefined

ValidationDetailsOfAllParts(e, query, body, params) ==
    PartErrors("query", Endpoints[e].query, query)
        \o PartErrors("body", Endpoints[e].body, body)
        \o PartErrors("params", Endpoints[e].params, params)

\* The details of the ValidationError that the request validation of
\* validatedHandler throws, <<>> when it throws none: query, body and params are
\* parsed in this order and the first part that fails throws.
ValidationDetails(e, query, body, params) ==
    IF PartErrors("query", Endpoints[e].query, query) # <<>>
    THEN PartErrors("query", Endpoints[e].query, query)
    ELSE IF PartErrors("body", Endpoints[e].body, body) # <<>>
    THEN PartErrors("body", Endpoints[e].body, body)
    ELSE PartErrors("params", Endpoints[e].params, params)

RequestAuthDropped(rq) == NoAuth

\* auth: request.auth, the auth property of the typed request.
RequestAuth(rq) == rq.auth

\* validatedHandler from its entry to the await of the handler: query, body and
\* params are parsed in this order, the first failure throws a ValidationError;
\* otherwise the handler is called with the typed request.
validatedHandler(r) ==
    LET rq == Step(req[r], "requestValidation")
        ep == Endpoints[rq.ep]
        details == ValidationDetails(rq.ep, rq.query, rq.body, rq.params)
        typedRequest ==
            [called |-> TRUE,
             query |-> PartData(ep.query, rq.query),
             body |-> PartData(ep.body, rq.body),
             params |-> PartData(ep.params, rq.params),
             auth |-> RequestAuth(rq)]
    IN
    /\ req[r].pc = "wrapper"
    /\ req' = [req EXCEPT ![r] =
         IF details # <<>>
         THEN CatchValidationError(rq, details)
         ELSE Step([rq EXCEPT !.pc = "handler", !.seen = typedRequest, !.hcalls = @ + 1,
                              !.handler = ep.handler],
                   "handler")]
    /\ UNCHANGED <<apiToken, active, served, staticVars>>

\* The response guard and what follows it, once the handler has returned result:
\* a result that fails the strict response schema becomes a
\* ResponseValidationError, otherwise the result is returned to the framework,
\* which sends it.
GuardAndReturn(rq0, result) ==
    LET rq == Step([rq0 EXCEPT !.result = result], "guard")
        rr == safeParse(applyStrict(Endpoints[rq.ep].response), result)
    IN IF ~rr.success
       THEN CatchResponseValidationError([rq EXCEPT !.guard = "failed"],
                                         ResponseFieldErrors(rr.issues))
       ELSE Finished(Send(Step([rq EXCEPT !.guard = "passed"], "transmit"),
                          rq.reply.status, ValueBody(result)))

\* The handler returns a value.
HandlerReturns(r) ==
    /\ req[r].pc = "handler"
    /\ \E v \in ReturnedResults : req' = [req EXCEPT ![r] = GuardAndReturn(req[r], v)]
    /\ UNCHANGED <<apiToken, active, served, staticVars>>

AdminRequiredBody ==
    ErrorBody(403, "", "Forbidden", <<"Admin access required">>, NoDetails)

\* What awaiting the handler gives when the handler returned the reply object:
\* the reply object, or undefined when the reply is a thenable that settles
\* without a value.
SentReplyResults == {ReplyObject, Undefined}

\* The handler answers by itself, return reply.code(403).send({...}), so the value
\* it returns is the reply object.
HandlerSendsReply(r) ==
    /\ req[r].pc = "handler"
    /\ \E v \in SentReplyResults :
         req' = [req EXCEPT ![r] = GuardAndReturn(Send(req[r], 403, AdminRequiredBody), v)]
    /\ UNCHANGED <<apiToken, active, served, staticVars>>

\* The handler throws new NotFoundError(message).
HandlerThrowsNotFound(r) ==
    /\ req[r].pc = "handler"
    /\ \E m \in ThrownMessages :
         req' = [req EXCEPT ![r] =
                   CatchNotFound([req[r] EXCEPT !.thrown = "NotFoundError",
                                                !.thrownMessage = m], m)]
    /\ UNCHANGED <<apiToken, active, served, staticVars>>

\* The handler throws new ValidationError(details).
HandlerThrowsValidation(r) ==
    /\ req[r].pc = "handler"
    /\ \E d \in ThrownDetails :
         req' = [req EXCEPT ![r] =
                   CatchValidationError([req[r] EXCEPT !.thrown = "ValidationError"], d)]
    /\ UNCHANGED <<apiToken, active, served, staticVars>>

RethrowAnsweredAs500(rq) ==
    Finished(Send([rq EXCEPT !.thrown = "Error"], 500,
                  ErrorBody(500, "", "Internal Server Error", <<"Error">>, NoDetails)))

\* throw error: an error of no class the catch block maps leaves the wrapper as
\* it came, to the framework's error handler.
Rethrow(rq) == Finished([rq EXCEPT !.thrown = "Error"])

\* The handler throws any other error: the catch block rethrows it.
HandlerThrowsOther(r) ==
    /\ req[r].pc = "handler"
    /\ req' = [req EXCEPT ![r] = Rethrow(req[r])]
    /\ UNCHANGED <<apiToken, active, served, staticVars>>

\* The framework is done with the request; the slot takes the next one.
Recycle(r) ==
    /\ req[r].pc = "done"
    /\ req' = [req EXCEPT ![r] = Idle]
    /\ served' = served + 1
    /\ UNCHANGED <<apiToken, active, staticVars>>

Next ==
    \E r \in Slots :
        \/ Arrive(r)
        \/ RouteValidation(r)
        \/ authenticateToken(r)
        \/ ValidatorResolves(r)
        \/ ValidatorRejects(r)
        \/ validatedHandler(r)
        \/ HandlerReturns(r)
        \/ HandlerSendsReply(r)
        \/ HandlerThrowsNotFound(r)
        \/ HandlerThrowsValidation(r)
        \/ HandlerThrowsOther(r)
        \/ Recycle(r)

Spec == Init /\ [][Next]_vars

\* Every slot takes requests: the requests in different slots interleave.
InitConc == InitWith(Slots)

SpecConc == InitConc /\ [][Next]_vars

\* Every step of the pipeline is taken once it can be: the framework runs its
\* validation, the preHandler and the wrapper, and the token validator and the
\* handler, both awaited, terminate by returning or by throwing.
Fairness(r) ==
    /\ WF_vars(RouteValidation(r))
    /\ WF_vars(authenticateToken(r))
    /\ WF_vars(ValidatorResolves(r) \/ ValidatorRejects(r))
    /\ WF_vars(validatedHandler(r))
    /\ WF_vars(HandlerReturns(r) \/ HandlerSendsReply(r) \/ HandlerThrowsNotFound(r)
                  \/ HandlerThrowsValidation(r) \/ HandlerThrowsOther(r))

SpecFair == Init /\ [][Next]_vars /\ \A r \in Slots : Fairness(r)

\* ------------------------------------------------------------ operation ids

\* Endpoints registered in one server.
MaxEndpoints == 2

\* A url is the sequence of its characters; a method is one atom.
Urls ==
    {<<"/">>, <<"/", "a">>, <<"/", "a", "/", "b">>, <<"/", "a", "_", "b">>,
     <<"/", "A", "/", "b">>, <<"/", "a", "/", ":", "b">>}

Methods == {"GET", "POST", "PUT", "DELETE"}

\* config.operationId: undefined, '' or a name.
NoOperationId == [def |-> FALSE, text |-> <<>>]
ExplicitOperationIds == {NoOperationId, ErrorText(<<>>), ErrorText(<<"getTestData">>)}

\* toLowerCase on the characters and method names in use.
Lower(c) ==
    CASE c = "A" -> "a"
      [] c = "GET" -> "get"
      [] c = "POST" -> "post"
      [] c = "PUT" -> "put"
      [] c = "DELETE" -> "delete"
      [] OTHER -> c

toLowerCase(str) == [i \in DOMAIN str |-> Lower(str[i])]

\* url.replace(/^\//, ''): one leading slash is removed.
StripLeadingSlash(url) ==
    IF url # <<>> /\ url[1] = "/" THEN Tail(url) ELSE url

\* cleanUrl.replace(/\//g, '_')
ReplaceSlashes(str) == [i \in DOMAIN str |-> IF str[i] = "/" THEN "_" ELSE str[i]]

\* `${pathPart}_${methodPart}`
generateOperationId(url, method) ==
    ReplaceSlashes(toLowerCase(StripLeadingSlash(url))) \o <<"_", Lower(method)>>

ExplicitWhenDefined(explicit, url, method) ==
    IF explicit.def THEN explicit.text ELSE generateOperationId(url, method)

\* endpointConfig.config?.operationId || autoGeneratedOperationId
OperationIdOf(explicit, url, method) ==
    IF explicit.def /\ explicit.text # <<>> THEN explicit.text
    ELSE generateOperationId(url, method)

\* createEndpoint, as far as the operation id of the route goes.
createEndpoint ==
    /\ Len(routes) < MaxEndpoints
    /\ \E url \in Urls, method \in Methods, explicit \in ExplicitOperationIds :
         routes' = Append(routes, [url |-> url, method |-> method, explicit |-> explicit,
                                   operationId |-> OperationIdOf(explicit, url, method)])
    /\ UNCHANGED <<apiToken, active, req, served, server, calls>>

\* A server on which endpoints are registered and no request is handled.
InitDoc == InitWith({}) /\ apiToken = [kind |-> "string", value |-> <<"secret">>]

NextDoc == createEndpoint

SpecDoc == InitDoc /\ [][NextDoc]_vars

\* ------------------------------------------------------------ start and stop

\* Calls of start() and stop() made on one server.
MaxCalls == 3

AlreadyStartedMessage == "Server is already started"

\* A call of start() or stop(): where it stands (pc), how its promise settled,
\* whether it called listen or close, and what it found and left.
NewCall(kind, s) ==
    [kind |-> kind, pc |-> "done", outcome |-> "resolved", error |-> "",
     listenError |-> "", listened |-> FALSE, closed |-> FALSE,
     startedAtEntry |-> s.started, afterStart |-> s.startedOk, after |-> s.last,
     startedAtExit |-> s.started]

NeverStarted(s) == FALSE

\* if (this.started)
IsStarted(s) == s.started

StopNeverReturnsEarly(s) == FALSE

\* if (!this.started)
NotStarted(s) == ~s.started

AlwaysOwns(s) == TRUE

\* if (!this.ownsFastifyInstance)
Owns(s) == s.ownsFastifyInstance

\* start() up to its first await: it throws when the server is started, only
\* marks the server started on a provided instance, and calls listen otherwise.
start ==
    /\ Len(calls) < MaxCalls
    /\ IF IsStarted(server)
       THEN /\ calls' = Append(calls, [NewCall("start", server) EXCEPT
                                          !.outcome = "rejected",
                                          !.error = AlreadyStartedMessage])
            /\ server' = [server EXCEPT !.last = "start"]
       ELSE IF ~Owns(server)
       THEN /\ calls' = Append(calls, [NewCall("start", server) EXCEPT
                                          !.startedAtExit = TRUE])
            /\ server' = [server EXCEPT !.started = TRUE, !.startedOk = TRUE,
                                        !.last = "start"]
       ELSE /\ calls' = Append(calls, [NewCall("start", server) EXCEPT
                                          !.pc = "listen", !.outcome = "pending",
                                          !.listened = TRUE])
            /\ server' = [server EXCEPT !.listens = @ + 1, !.last = "start"]
    /\ UNCHANGED <<apiToken, active, req, served, routes>>

\* fastify.listen resolves (an instance listens once: it is neither listening
\* nor closed); start() sets started and resolves.
ListenResolves ==
    \E i \in DOMAIN calls :
        /\ calls[i].pc = "listen"
        /\ server.fastify = "idle"
        /\ server' = [server EXCEPT !.fastify = "listening", !.started = TRUE,
                                    !.startedOk = TRUE, !.last = "listenResolved"]
        /\ calls' = [calls EXCEPT ![i] = [@ EXCEPT !.pc = "done", !.outcome = "resolved",
                                                   !.startedAtExit = TRUE]]
        /\ UNCHANGED <<apiToken, active, req, served, routes>>

\* The error fastify.listen rejects with: the port is taken, the server listens
\* already, or the instance was closed.
ListenError(s) ==
    CASE s.fastify = "idle" -> "EADDRINUSE"
      [] s.fastify = "listening" -> "ERR_SERVER_ALREADY_LISTEN"
      [] OTHER -> "FST_ERR_REOPENED_CLOSE_SERVER"

\* catch (err) { console.error(...); throw err; }
Rethrown(err) == err

\* fastify.listen rejects; start() logs the error and rejects with it, started
\* is not touched.
ListenRejects ==
    \E i \in DOMAIN calls :
        /\ calls[i].pc = "listen"
        /\ calls' = [calls EXCEPT ![i] =
                        [@ EXCEPT !.pc = "done",
                                  !.outcome = IF Rethrown(ListenError(server)) = ""
                                              THEN "resolved" ELSE "rejected",
                                  !.listenError = ListenError(server),
                                  !.error = Rethrown(ListenError(server)),
                                  !.startedAtExit = server.started]]
        /\ server' = [server EXCEPT !.last = "listenRejected"]
        /\ UNCHANGED <<apiToken, active, req, served, routes>>

\* stop() up to its first await: it returns when the server is not started, only
\* marks the server not started on a provided instance, and calls close
\* otherwise.
stop ==
    /\ Len(calls) < MaxCalls
    /\ IF NotStarted(server)
       THEN /\ calls' = Append(calls, NewCall("stop", server))
            /\ server' = [server EXCEPT !.stops = @ + 1, !.startedOk = FALSE,
                                        !.last = "stop"]
       ELSE IF ~Owns(server)
       THEN /\ calls' = Append(calls, [NewCall("stop", server) EXCEPT
                                          !.startedAtExit = FALSE])
            /\ server' = [server EXCEPT !.started = FALSE, !.stops = @ + 1,
                                        !.startedOk = FALSE, !.last = "stop"]
       ELSE /\ calls' = Append(calls, [NewCall("stop", server) EXCEPT
                                          !.pc = "close", !.outcome = "pending",
                                          !.closed = TRUE])
            /\ server' = [server EXCEPT !.closes = @ + 1, !.stops = @ + 1,
                                        !.startedOk = FALSE, !.last = "stop"]
    /\ UNCHANGED <<apiToken, active, req, served, routes>>

\* fastify.close resolves; stop() clears started and resolves.
CloseResolves ==
    \E i \in DOMAIN calls :
        /\ calls[i].pc = "close"
        /\ server' = [server EXCEPT !.fastify = "closed", !.started = FALSE,
                                    !.last = "closeResolved"]
        /\ calls' = [calls EXCEPT ![i] = [@ EXCEPT !.pc = "done", !.outcome = "resolved",
                                                   !.startedAtExit = FALSE]]
        /\ UNCHANGED <<apiToken, active, req, served, routes>>

\* A server with its own or with a provided Fastify instance, on which start()
\* and stop() are called in any order, overlapping or not.
InitLife ==
    /\ apiToken = [kind |-> "string", value |-> <<"secret">>]
    /\ active = {}
    /\ req = [r \in Slots |-> Idle]
    /\ served = 0
    /\ routes = <<>>
    /\ server \in {NewServer(owns) : owns \in BOOLEAN}
    /\ calls = <<>>

NextLife ==
    \/ start
    \/ ListenResolves
    \/ ListenRejects
    \/ stop
    \/ CloseResolves

SpecLife == InitLife /\ [][NextLife]_vars

\* ------------------------------------------------------------------ claims

Last(seq) == seq[Len(seq)]

Ran(rq, name) == \E i \in DOMAIN rq.steps : rq.steps[i] = name

\* The place of a step in the order auth check, request validation, handler
\* invocation, response guard, transmission.
Rank(name) ==
    CASE name = "auth" -> 1
      [] name \in {"routeValidation", "requestValidation"} -> 2
      [] name = "handler" -> 3
      [] name = "guard" -> 4
      [] name = "transmit" -> 5

\* The request was answered by the auth check.
AuthFailed(rq) == rq.pc = "done" /\ rq.steps # <<>> /\ Last(rq.steps) = "auth"

\* The request was answered because request validation failed.
RequestValidationFailed(rq) ==
    /\ rq.pc = "done" /\ rq.steps # <<>>
    /\ Last(rq.steps) \in {"routeValidation", "requestValidation"}

\* C1: the steps of a request run in the order auth check (authenticated
\* endpoints only, and then first), request validation, handler invocation,
\* response guard, transmission; nothing runs after a failed auth check, the
\* handler does not run after a failed request validation, and the handler's
\* result is not transmitted after a failed response guard.
C1_FixedOrder ==
    \A r \in Slots :
        LET rq == req[r] IN
        /\ \A i, j \in DOMAIN rq.steps : i < j => Rank(rq.steps[i]) < Rank(rq.steps[j])
        /\ Endpoints[rq.ep].authenticated /\ rq.steps # <<>> => rq.steps[1] = "auth"
        /\ Ran(rq, "auth") => Endpoints[rq.ep].authenticated
        /\ rq.reply.sent /\ rq.reply.status \in {401, 403} /\ Ran(rq, "auth")
              => Last(rq.steps) = "auth" /\ rq.hcalls = 0
        /\ RequestValidationFailed(rq) => rq.hcalls = 0
        /\ rq.guard = "failed" => ~Ran(rq, "transmit") /\ rq.reply.wire # ValueBody(rq.result)

\* The handler returned a value that fails the declared response schema in
\* strict mode.
ReturnedNonConforming(rq) ==
    /\ rq.guard # "none"
    /\ ~safeParse(applyStrict(Endpoints[rq.ep].response), rq.result).success

\* C2: when the handler's return value does not match the declared response
\* schema in strict mode, the transmitted response is 500 'Internal Server
\* Error' with the message 'Response validation failed - server returned
\* invalid data', and the value itself is never transmitted.
C2_NonConformingIs500 ==
    \A r \in Slots :
        ReturnedNonConforming(req[r]) =>
            /\ req[r].reply.sent
            /\ req[r].reply.status = 500
            /\ req[r].reply.wire.statusCode = 500
            /\ req[r].reply.wire.error = "Internal Server Error"
            /\ req[r].reply.wire.message = ResponseInvalidMessage
            /\ req[r].reply.wire.val = Undefined

Origins == {"query", "body", "params"}

\* C3: a request whose query, body or params fails its declared schema is
\* answered 400 with a details list of {field, message} entries, at least one,
\* each field being the origin, a dot, and the dot-joined path of the failure.
C3_ValidationFailureHasDetails ==
    \A r \in Slots :
        RequestValidationFailed(req[r]) =>
            /\ req[r].reply.status = 400
            /\ req[r].reply.wire.details.def
            /\ req[r].reply.wire.details.list # <<>>
            /\ \A i \in DOMAIN req[r].reply.wire.details.list :
                  LET f == req[r].reply.wire.details.list[i].field IN
                  Len(f) >= 2 /\ f[1] \in Origins /\ f[2] = "."

\* The request was answered by the wrapper's own request validation.
WrapperValidationFailed(rq) ==
    rq.pc = "done" /\ rq.steps # <<>> /\ Last(rq.steps) = "requestValidation"

SchemaOf(e, origin) ==
    CASE origin = "query" -> Endpoints[e].query
      [] origin = "body" -> Endpoints[e].body
      [] origin = "params" -> Endpoints[e].params

\* The part as the wrapper's validation reads it from the request.
PartOf(rq, origin) ==
    CASE origin = "query" -> rq.query
      [] origin = "body" -> rq.body
      [] origin = "params" -> rq.params

\* The part as it arrived.
RawPartOf(rq, origin) ==
    CASE origin = "query" -> rq.rawQuery
      [] origin = "body" -> rq.rawBody
      [] origin = "params" -> rq.rawParams

FailingParts(rq) ==
    {o \in Origins : PartErrors(o, SchemaOf(rq.ep, o), PartOf(rq, o)) # <<>>}

\* C4 (as claimed): request validation validates every declared part and the
\* 400 response lists the field errors of all failing parts together.
C4_ListsAllFailingParts ==
    \A r \in Slots :
        WrapperValidationFailed(req[r]) =>
            req[r].reply.payload.details.list
                = ValidationDetailsOfAllParts(req[r].ep, req[r].query, req[r].body, req[r].params)

\* Query comes before body, body before params.
Before(o) ==
    CASE o = "query" -> {}
      [] o = "body" -> {"query"}
      [] o = "params" -> {"query", "body"}

\* C4 (amended): the wrapper's request validation stops at the first failing
\* part in the order query, body, params; the 400 payload it sends lists the
\* field errors of that part and of no other part.
C4_FirstFailingPartOnly ==
    \A r \in Slots :
        WrapperValidationFailed(req[r]) =>
            LET d == req[r].reply.payload.details IN
            /\ req[r].reply.payload.statusCode = 400
            /\ d.def /\ d.list # <<>>
            /\ \E o \in FailingParts(req[r]) :
                  /\ Before(o) \cap FailingParts(req[r]) = {}
                  /\ Len(d.list) = Len(safeParse(applyStrict(SchemaOf(req[r].ep, o)),
                                                 PartOf(req[r], o)).issues)
                  /\ \A i \in DOMAIN d.list : d.list[i].field[1] = o

\* Witness of C4: a request answered by the wrapper's validation while two of
\* its parts fail.
C4_Witness ==
    \E r \in Slots :
        /\ WrapperValidationFailed(req[r])
        /\ Cardinality(FailingParts(req[r])) >= 2
        /\ req[r].reply.payload.details.list # <<>>

\* The keys of a part that its declared schema does not declare.
UndeclaredKeys(rq, o) ==
    IF SchemaOf(rq.ep, o).declared /\ RawPartOf(rq, o).def
    THEN UnknownKeys(SchemaOf(rq.ep, o), RawPartOf(rq, o).obj)
    ELSE {}

\* The request was stopped before request validation could answer it.
StoppedByAuth(rq) ==
    \/ AuthFailed(rq)
    \/ rq.pc = "done" /\ rq.thrown = "Error" /\ rq.hcalls = 0

\* C5 (as claimed): a request with a field its declared schema does not declare
\* never reaches the handler and is answered 400, whatever the kind of schema.
C5_UndeclaredFieldRejected ==
    \A r \in Slots : \A o \in Origins :
        UndeclaredKeys(req[r], o) # {} =>
            /\ req[r].hcalls = 0
            /\ req[r].pc = "done" /\ ~StoppedByAuth(req[r]) => req[r].reply.status = 400

\* C5 (amended): when the schema declared for a part is a ZodObject, a request
\* with an undeclared field in that part fails validation: the strict parse
\* yields an unrecognized-keys issue naming the field, the handler is not
\* invoked and the answer is 400.  A schema that is not a ZodObject is left
\* unchanged by applyStrict, and the handler never observes an undeclared field.
C5_UndeclaredFieldRejectedByObjectSchema ==
    \A r \in Slots : \A o \in Origins :
        /\ UndeclaredKeys(req[r], o) # {} /\ SchemaOf(req[r].ep, o).kind = "object" =>
              /\ req[r].hcalls = 0
              /\ req[r].pc = "done" => req[r].reply.sent /\ req[r].reply.status = 400
              /\ LET issues == safeParse(applyStrict(SchemaOf(req[r].ep, o)),
                                         RawPartOf(req[r], o)).issues
                 IN \A k \in UndeclaredKeys(req[r], o) :
                        \E i \in DOMAIN issues : k \in Range(issues[i].message)
        /\ req[r].seen.called /\ SchemaOf(req[r].ep, o).declared =>
              DOMAIN PartOf(req[r].seen, o).obj \subseteq Range(SchemaOf(req[r].ep, o).order)

\* Witness of C5: a request with an undeclared field in a part declared by a
\* ZodObject, answered 400 without the handler having run.
C5_Witness ==
    \E r \in Slots : \E o \in Origins :
        /\ UndeclaredKeys(req[r], o) # {} /\ SchemaOf(req[r].ep, o).kind = "object"
        /\ req[r].pc = "done" /\ req[r].reply.status = 400 /\ req[r].hcalls = 0

\* Every declared part of the request, as it arrived, matches its schema.
WellFormed(rq) ==
    \A o \in Origins :
        SchemaOf(rq.ep, o).declared =>
            safeParse(applyStrict(SchemaOf(rq.ep, o)), RawPartOf(rq, o)).success

\* C6: for a request whose parts all match the declared contract, request
\* validation succeeds, the handler observes the validated (coerced, defaulted)
\* values of the parts, and validating the observed values again succeeds with
\* the same values.
C6_WellFormedInputReachesHandler ==
    \A r \in Slots :
        req[r].pc # "idle" /\ WellFormed(req[r]) =>
            /\ ~RequestValidationFailed(req[r])
            /\ req[r].seen.called =>
                  \A o \in Origins :
                      LET sch == SchemaOf(req[r].ep, o)
                          seen == PartOf(req[r].seen, o)
                      IN IF sch.declared
                         THEN /\ seen = safeParse(applyStrict(sch), RawPartOf(req[r], o)).data
                              /\ safeParse(applyStrict(sch), seen).success
                              /\ safeParse(applyStrict(sch), seen).data = seen
                         ELSE seen = Undefined

\* The header is two space-separated tokens, the first being Bearer.
WellFormedBearer(h) ==
    h.present /\ Len(Split(h.value)) = 2 /\ Split(h.value)[1] = <<"Bearer">>

\* C7: a request that passes through authenticateToken without an Authorization
\* header is answered 401 'Unauthorized' with 'Missing authorization header';
\* the token validator is not invoked and the handler does not run.
C7_MissingHeaderIs401 ==
    \A r \in Slots :
        Ran(req[r], "auth") /\ ~req[r].header.present =>
            /\ req[r].pc = "done"
            /\ req[r].reply.sent /\ req[r].reply.status = 401
            /\ req[r].reply.wire = AuthError(401, "Unauthorized", MissingHeaderMessage)
            /\ req[r].vcalls = <<>> /\ ~req[r].compared
            /\ req[r].hcalls = 0

\* Witness of C7: an authenticated endpoint has answered a request without header.
C7_Witness ==
    \E r \in Slots :
        /\ Ran(req[r], "auth") /\ ~req[r].header.present
        /\ req[r].reply.sent /\ req[r].reply.status = 401

\* C8 (as claimed): every Authorization header that is not two space-separated
\* tokens with first token Bearer is answered 401 with the format message,
\* without the string comparison or the validator being reached; the validator
\* is invoked only with the second token of a well-formed header.
C8_MalformedHeaderIsFormat401 ==
    \A r \in Slots :
        /\ Ran(req[r], "auth") /\ req[r].header.present /\ ~WellFormedBearer(req[r].header) =>
              /\ req[r].reply.sent /\ req[r].reply.status = 401
              /\ req[r].reply.wire = AuthError(401, "Unauthorized", BadFormatMessage)
              /\ req[r].vcalls = <<>> /\ ~req[r].compared
        /\ req[r].vcalls # <<>> =>
              /\ WellFormedBearer(req[r].header)
              /\ req[r].vcalls = <<Split(req[r].header.value)[2]>>

\* C8 (amended): every non-empty Authorization header that is not two
\* space-separated tokens with first token Bearer is answered 401 with the format
\* message (an empty header value is answered like a missing header, 401 with
\* 'Missing authorization header'); in both cases neither the string comparison
\* nor the validator is reached, and the validator is invoked only with the
\* second token of a well-formed header.
C8_NonEmptyMalformedHeaderIsFormat401 ==
    \A r \in Slots :
        /\ Ran(req[r], "auth") /\ req[r].header.present /\ ~WellFormedBearer(req[r].header) =>
              /\ req[r].reply.sent /\ req[r].reply.status = 401
              /\ req[r].reply.wire =
                    AuthError(401, "Unauthorized",
                              IF req[r].header.value = <<>> THEN MissingHeaderMessage
                              ELSE BadFormatMessage)
              /\ req[r].vcalls = <<>> /\ ~req[r].compared
              /\ req[r].hcalls = 0
        /\ req[r].vcalls # <<>> =>
              /\ WellFormedBearer(req[r].header)
              /\ req[r].vcalls = <<Split(req[r].header.value)[2]>>

\* Witness of C8: a non-empty malformed header was answered 401.
C8_Witness ==
    \E r \in Slots :
        /\ Ran(req[r], "auth") /\ req[r].header.present /\ req[r].header.value # <<>>
        /\ ~WellFormedBearer(req[r].header)
        /\ req[r].reply.status = 401 /\ req[r].reply.wire.message = BadFormatMessage

\* C9: with a string apiToken, a well-formed Bearer header is accepted exactly
\* when its token equals the configured string; any other token is answered 403
\* 'Forbidden' with 'Invalid token' and the handler does not run.
C9_StringTokenExactMatch ==
    \A r \in Slots :
        apiToken.kind = "string" /\ Ran(req[r], "auth") /\ WellFormedBearer(req[r].header) =>
            LET token == Split(req[r].header.value)[2] IN
            /\ req[r].compared /\ req[r].vcalls = <<>>
            /\ token = apiToken.value => ~AuthFailed(req[r])
            /\ token # apiToken.value =>
                  /\ AuthFailed(req[r])
                  /\ req[r].reply.sent /\ req[r].reply.status = 403
                  /\ req[r].reply.wire = AuthError(403, "Forbidden", InvalidTokenMessage)
                  /\ req[r].hcalls = 0

\* Witness of C9: a string apiToken has rejected a well-formed header's token.
C9_Witness ==
    \E r \in Slots :
        /\ apiToken.kind = "string" /\ WellFormedBearer(req[r].header)
        /\ Split(req[r].header.value)[2] # apiToken.value
        /\ AuthFailed(req[r]) /\ req[r].reply.status = 403

\* C10 (as claimed): when the validator function returns valid=false the answer
\* is 403 'Forbidden' whose message is the validator's error when it supplied
\* one and 'Invalid token' otherwise, and the handler does not run.
C10_ValidatorRejectionIs403 ==
    \A r \in Slots :
        req[r].vresult.returned /\ ~req[r].vresult.valid =>
            /\ req[r].pc = "done"
            /\ req[r].reply.sent /\ req[r].reply.status = 403
            /\ req[r].reply.wire =
                  AuthError(403, "Forbidden",
                            IF req[r].vresult.error.def THEN req[r].vresult.error.text
                            ELSE InvalidTokenMessage)
            /\ req[r].hcalls = 0

\* C10 (amended): when the validator function returns valid=false the answer is
\* 403 'Forbidden' whose message is the validator's error when it supplied a
\* non-empty one and 'Invalid token' otherwise (also for the empty string), and
\* the handler does not run.
C10_ValidatorRejectionIs403NonEmptyError ==
    \A r \in Slots :
        req[r].vresult.returned /\ ~req[r].vresult.valid =>
            /\ req[r].pc = "done"
            /\ req[r].reply.sent /\ req[r].reply.status = 403
            /\ req[r].reply.wire =
                  AuthError(403, "Forbidden",
                            IF req[r].vresult.error.def /\ req[r].vresult.error.text # <<>>
                            THEN req[r].vresult.error.text
                            ELSE InvalidTokenMessage)
            /\ req[r].hcalls = 0

\* Witness of C10: a validator's rejection with its own message was answered.
C10_Witness ==
    \E r \in Slots :
        /\ req[r].vresult.returned /\ ~req[r].vresult.valid
        /\ req[r].vresult.error = ErrorText(<<"Custom error message">>)
        /\ req[r].reply.status = 403
        /\ req[r].reply.wire.message = <<"Custom error message">>

\* The validator of the request accepted the token and supplied a context.
AcceptedWithContext(rq) ==
    rq.vresult.returned /\ rq.vresult.valid /\ rq.vresult.context.def

\* C11: when the custom validator accepts a token and supplies a context, the
\* handler of that request executes, and the auth value it observes is the
\* context the validator returned for that request.
C11_AcceptedContextReachesHandler ==
    \A r \in Slots :
        AcceptedWithContext(req[r]) =>
            /\ req[r].pc = "done" => req[r].hcalls = 1
            /\ req[r].seen.called => req[r].seen.auth = req[r].vresult.context

\* The context the validator of the request produced for it: none when the
\* validator was not called, rejected the token or supplied no context.
OwnContext(rq) ==
    IF rq.vresult.returned /\ rq.vresult.valid THEN rq.vresult.context ELSE NoAuth

\* C12: in every interleaving of concurrent requests and every sequence of
\* successive requests, the auth context attached to a request and the one its
\* handler observes is the context the validator produced for that same request,
\* and none when the validator supplied none.
C12_AuthContextIsRequestLocal ==
    \A r \in Slots :
        /\ req[r].auth = OwnContext(req[r])
        /\ req[r].seen.called => req[r].seen.auth = OwnContext(req[r])

\* Witness of C12: after an earlier request, the handlers of two concurrent
\* requests have observed two different contexts.
C12_Witness ==
    \E r1, r2 \in Slots :
        /\ served >= 1
        /\ req[r1].seen.called /\ req[r2].seen.called
        /\ req[r1].seen.auth = Ctx("user") /\ req[r2].seen.auth = Ctx("admin")

\* C13: with a custom validator, the handler of a request to an authenticated
\* endpoint never starts before the validator call of that request has
\* resolved, whatever the other requests do meanwhile.
C13_HandlerAfterValidatorResolved ==
    \A r \in Slots :
        /\ req[r].vcalls # <<>> /\ ~req[r].vresult.returned =>
              req[r].hcalls = 0 /\ ~req[r].seen.called /\ ~Ran(req[r], "handler")
        /\ apiToken.kind = "function" /\ Endpoints[req[r].ep].authenticated
              /\ req[r].hcalls > 0 =>
              req[r].vcalls # <<>> /\ req[r].vresult.returned /\ req[r].vresult.valid

\* Witness of C13: the validator call of one request is pending while the handler
\* of another request, whose validator has resolved, is running.
C13_Witness ==
    \E r1, r2 \in Slots :
        /\ req[r1].pc = "validator" /\ ~req[r1].vresult.returned
        /\ req[r2].pc = "handler" /\ req[r2].hcalls = 1 /\ req[r2].vresult.returned

\* How many times the step was run for the request.
Times(rq, name) == Cardinality({i \in DOMAIN rq.steps : rq.steps[i] = name})

HandlerThrew(rq, class) == rq.hcalls = 1 /\ rq.thrown = class

\* C16: when the handler throws a ValidationError with a details list, the
\* response is 400 'Bad Request' with the message 'Validation failed' and the
\* thrown details, and the response guard is not run.
C16_HandlerValidationErrorHasDetails ==
    \A r \in Slots :
        HandlerThrew(req[r], "ValidationError") =>
            /\ req[r].reply.sent /\ req[r].reply.status = 400
            /\ req[r].reply.wire.statusCode = 400
            /\ req[r].reply.wire.error = "Bad Request"
            /\ req[r].reply.wire.message = <<"Validation failed">>
            /\ req[r].reply.wire.details = req[r].reply.payload.details
            /\ req[r].guard = "none" /\ ~Ran(req[r], "guard")

\* C17: when the handler throws a NotFoundError, the response is 404 'Not Found'
\* with the message of the error and without details, and the response guard is
\* not run.
C17_NotFoundIs404 ==
    \A r \in Slots :
        HandlerThrew(req[r], "NotFoundError") =>
            /\ req[r].pc = "done" /\ req[r].sends = 1
            /\ req[r].reply.sent /\ req[r].reply.status = 404
            /\ req[r].reply.wire =
                  ErrorBody(404, "", "Not Found", req[r].thrownMessage, NoDetails)
            /\ req[r].guard = "none" /\ ~Ran(req[r], "guard")

\* Witness of C17: a NotFoundError with a message of its own was answered 404.
C17_Witness ==
    \E r \in Slots :
        /\ HandlerThrew(req[r], "NotFoundError")
        /\ req[r].thrownMessage = <<"Item ", "a", " not found">>
        /\ req[r].reply.status = 404

\* C18: an error thrown by the handler that is no NotFoundError, ValidationError
\* or ResponseValidationError is rethrown by the wrapper: the wrapper sends no
\* response for it, does not run the response guard and does not invoke the
\* handler again.
C18_OtherErrorsRethrown ==
    \A r \in Slots :
        HandlerThrew(req[r], "Error") =>
            /\ req[r].pc = "done"
            /\ req[r].sends = 0 /\ ~req[r].reply.sent
            /\ req[r].guard = "none" /\ ~Ran(req[r], "guard")
            /\ Times(req[r], "handler") = 1

\* Witness of C18: a handler has thrown such an error.
C18_Witness ==
    \E r \in Slots :
        HandlerThrew(req[r], "Error") /\ req[r].pc = "done" /\ Ran(req[r], "handler")

\* The response that was transmitted is an error response of authenticateToken.
AnsweredByAuth(rq) ==
    rq.pc = "done" /\ rq.reply.sent /\ rq.steps # <<>> /\ Last(rq.steps) = "auth"

\* The response that was transmitted is an error response of the endpoint
\* wrapper: of its request validation or of its catch block.
AnsweredByWrapper(rq) ==
    /\ rq.pc = "done" /\ rq.reply.sent /\ rq.sends = 1
    /\ \/ WrapperValidationFailed(rq)
       \/ HandlerThrew(rq, "NotFoundError")
       \/ HandlerThrew(rq, "ValidationError")
       \/ rq.guard = "failed"

\* C19: every error response of authenticateToken or of the endpoint wrapper is
\* an object {statusCode, error, message, details?} whose statusCode is the HTTP
\* status, one of 400, 401, 403, 404, 500: 401 only for a missing or malformed
\* credential, 403 only for a rejected one, 404 only for a NotFoundError of the
\* handler, 400 only for a failed request validation or a ValidationError of the
\* handler, 500 only for a failed response guard.
C19_ErrorResponseShape ==
    \A r \in Slots :
        AnsweredByAuth(req[r]) \/ AnsweredByWrapper(req[r]) =>
            LET rq == req[r]
                w == rq.reply.wire
            IN
            /\ w.kind = "error" /\ w.code = "" /\ w.val = Undefined
            /\ w.error # ""
            /\ w.statusCode = rq.reply.status
            /\ rq.reply.status \in {400, 401, 403, 404, 500}
            /\ rq.reply.status = 401 =>
                  AnsweredByAuth(rq) /\ ~WellFormedBearer(rq.header)
            /\ rq.reply.status = 403 =>
                  /\ AnsweredByAuth(rq) /\ WellFormedBearer(rq.header)
                  /\ \/ rq.compared /\ Split(rq.header.value)[2] # apiToken.value
                     \/ rq.vresult.returned /\ ~rq.vresult.valid
            /\ rq.reply.status = 404 => HandlerThrew(rq, "NotFoundError")
            /\ rq.reply.status = 400 =>
                  WrapperValidationFailed(rq) \/ HandlerThrew(rq, "ValidationError")
            /\ rq.reply.status = 500 => rq.guard = "failed"

\* Witness of C19: the wrapper has answered a failed response guard with 500.
C19_Witness ==
    \E r \in Slots :
        /\ AnsweredByWrapper(req[r]) /\ req[r].guard = "failed"
        /\ req[r].reply.status = 500 /\ req[r].reply.wire.statusCode = 500

\* The query string or the body of the request, as it arrived, violates the
\* schema declared for it.
QueryOrBodyViolatesSchema(rq) ==
    \E o \in {"query", "body"} :
        /\ SchemaOf(rq.ep, o).declared
        /\ ~safeParse(applyStrict(SchemaOf(rq.ep, o)), RawPartOf(rq, o)).success

ViolatesRouteSchema(rq) ==
    \/ /\ Endpoints[rq.ep].query.declared
       /\ ~safeParse(applyStrict(Endpoints[rq.ep].query), rq.rawQuery).success
    \/ /\ Endpoints[rq.ep].method # "GET" /\ Endpoints[rq.ep].body.declared
       /\ ~safeParse(applyStrict(Endpoints[rq.ep].body), rq.rawBody).success

C22_AutoOperationIdUnique ==
    \A i, j \in DOMAIN routes :
        /\ ~routes[i].explicit.def /\ ~routes[j].explicit.def
        /\ routes[i].url # routes[j].url \/ routes[i].method # routes[j].method
        => routes[i].operationId # routes[j].operationId

\* C23: GET /items and POST /items are registered on one path with distinct
\* handlers; whenever a handler has been invoked for a request, it was invoked
\* once and it is the handler registered for the request's method and path, and
\* no endpoint registered for another method or path owns that handler; this
\* holds for a first request and for requests that follow earlier ones.
C23_RoutedByMethodAndPath ==
    \A r \in active :
        req[r].hcalls > 0 =>
            /\ req[r].hcalls = 1
            /\ \E e \in EndpointIds :
                  /\ Endpoints[e].method = req[r].method /\ Endpoints[e].url = req[r].url
                  /\ Endpoints[e].handler = req[r].handler
            /\ \A e \in EndpointIds :
                  Endpoints[e].handler = req[r].handler =>
                      Endpoints[e].method = req[r].method /\ Endpoints[e].url = req[r].url

\* Witness of C23: after an earlier request, a POST /items has invoked the
\* handler of POST /items although GET /items is registered on the same path.
C23_Witness ==
    /\ served >= 1
    /\ \E e \in EndpointIds :
          Endpoints[e].url = "/items" /\ Endpoints[e].method = "GET"
          /\ Endpoints[e].handler # "postItems"
    /\ \E r \in active :
          /\ req[r].method = "POST" /\ req[r].url = "/items"
          /\ req[r].hcalls = 1 /\ req[r].handler = "postItems"

\* C24: as long as a start() has completed successfully and stop() was not
\* called since, the server is started, and every start() called in that period
\* rejects with 'Server is already started', does not call listen and leaves
\* the server started.
C24_SecondStartRejects ==
    /\ server.startedOk => server.started
    /\ \A i \in DOMAIN calls :
          calls[i].kind = "start" /\ calls[i].afterStart =>
              /\ calls[i].pc = "done" /\ calls[i].outcome = "rejected"
              /\ calls[i].error = AlreadyStartedMessage
              /\ ~calls[i].listened
              /\ calls[i].startedAtExit

\* Witness of C24: on an owned instance a start() resolved after one listen, a
\* second start() was rejected, and listen was still called once.
C24_Witness ==
    /\ server.ownsFastifyInstance /\ server.listens = 1 /\ server.started
    /\ Len(calls) >= 2
    /\ calls[1].kind = "start" /\ calls[1].outcome = "resolved" /\ calls[1].listened
    /\ calls[2].kind = "start" /\ calls[2].afterStart /\ calls[2].outcome = "rejected"

\* C25: a stop() called on a server that is not started resolves without error,
\* does not call close and leaves the server not started, on a never-started
\* server and after an earlier stop().
C25_StopWhenNotStarted ==
    \A i \in DOMAIN calls :
        calls[i].kind = "stop" /\ ~calls[i].startedAtEntry =>
            /\ calls[i].pc = "done" /\ calls[i].outcome = "resolved" /\ calls[i].error = ""
            /\ ~calls[i].closed
            /\ ~calls[i].startedAtExit

\* Witness of C25: on an owned instance start() resolved, a first stop() closed
\* the instance, and a second stop() found the server not started and resolved
\* without a second close.
C25_Witness ==
    /\ server.ownsFastifyInstance /\ server.closes = 1 /\ ~server.started
    /\ Len(calls) = 3
    /\ calls[1].kind = "start" /\ calls[1].outcome = "resolved"
    /\ calls[2].kind = "stop" /\ calls[2].closed /\ calls[2].outcome = "resolved"
    /\ calls[3].kind = "stop" /\ ~calls[3].startedAtEntry /\ calls[3].outcome = "resolved"

\* C26: on a caller-provided Fastify instance the server never calls listen or
\* close, whatever start() and stop() calls are made: every call is complete at
\* once, a start() that is not rejected leaves the server started and a stop()
\* leaves it not started.
C26_ProvidedInstanceUntouched ==
    ~server.ownsFastifyInstance =>
        /\ server.listens = 0 /\ server.closes = 0 /\ server.fastify = "idle"
        /\ \A i \in DOMAIN calls :
              /\ calls[i].pc = "done" /\ ~calls[i].listened /\ ~calls[i].closed
              /\ calls[i].kind = "start" => calls[i].startedAtExit
              /\ calls[i].kind = "start" /\ ~calls[i].startedAtEntry =>
                    calls[i].outcome = "resolved"
              /\ calls[i].kind = "stop" =>
                    calls[i].outcome = "resolved" /\ ~calls[i].startedAtExit

\* Witness of C26: on a provided instance start() marked the server started,
\* stop() marked it not started and a further start() marked it started again.
C26_Witness ==
    /\ ~server.ownsFastifyInstance /\ server.started
    /\ Len(calls) = 3
    /\ calls[1].kind = "start" /\ calls[1].outcome = "resolved"
    /\ calls[2].kind = "stop" /\ calls[2].startedAtEntry
    /\ calls[3].kind = "start" /\ calls[3].outcome = "resolved"

\* C27: on an owned instance listen is called at most once as long as stop()
\* has not been called, whether start() calls overlap or not.
C27_ListenAtMostOnce ==
    server.ownsFastifyInstance /\ server.stops = 0 => server.listens <= 1

\* C29: a start() whose listen rejected rejects with the error of listen and
\* leaves the server not started; a stop() called right after that rejection
\* resolves without calling close, and a start() called right after it calls
\* listen and does not fail with 'Server is already started'.
C29_ListenRejectionLeavesNotStarted ==
    /\ \A i \in DOMAIN calls :
          calls[i].kind = "start" /\ calls[i].listenError # "" =>
              /\ calls[i].outcome = "rejected" /\ calls[i].error = calls[i].listenError
              /\ ~calls[i].startedAtExit
    /\ \A i \in DOMAIN calls :
          calls[i].after = "listenRejected" =>
              /\ calls[i].kind = "stop" => calls[i].outcome = "resolved" /\ ~calls[i].closed
              /\ calls[i].kind = "start" =>
                    calls[i].listened /\ calls[i].error # AlreadyStartedMessage

\* C28: a response is sent at most once for each request, also when the handler
\* has sent the reply itself and returned.
C28_SentAtMostOnce ==
    \A r \in active : req[r].sends <= 1

\* What a request has ended with: the responses sent for it, and the exception
\* that went to the framework.
Outcomes(rq) == rq.sends + (IF rq.thrown = "Error" THEN 1 ELSE 0)

\* C30 (no request is left without an outcome): when the token validator and
\* the handler terminate, every request that arrived is over at some point.
C30_EventuallyOver ==
    \A r \in Slots : (req[r].pc # "idle") ~> (req[r].pc = "done")

\* C30 (exactly one outcome): a request that is over has exactly one outcome, a
\* response sent by the auth check, by the validation, by the wrapper or for the
\* handler's result, or an exception gone to the framework.
C30_ExactlyOneOutcome ==
    \A r \in active : req[r].pc = "done" => Outcomes(req[r]) = 1

====
